---- MODULE Spec2Model ----
(***************************************************************************)
(* Model of app.py, the Streamlit script of the RainTomorrow repository.   *)
(*                                                                         *)
(* A Streamlit script is executed from its first line to its last on the   *)
(* first page load and again on every user interaction.  One execution is  *)
(* modelled as a walk of pc through the script's statements; the widget    *)
(* values (w_num, w_rain, w_dir) and the one-shot button flag are the      *)
(* session state the framework hands to the script's widget calls.         *)
(*                                                                         *)
(* Python numbers are modelled with their type: an int n is                *)
(* [ty |-> "int", tenths |-> 10*n], a float with one decimal is            *)
(* [ty |-> "float", tenths |-> t] (13.4 is tenths 134).                    *)
(***************************************************************************)
EXTENDS Integers, Sequences, FiniteSets, TLC

VARIABLES
    pc,                 \* position of the running script
    runs,               \* number of script executions started so far
    loads,              \* number of jl.load calls made so far
    w_num,              \* session: value of every numeric widget
    w_rain,             \* session: selection of the 'Did it rain today?' radio
    w_dir,              \* session: selection of the wind gust direction radio
    button,             \* TRUE in the execution triggered by a click on the button
    model,              \* script global `model`
    load_exc,           \* exception raised by jl.load in this execution, or "none"
    input_data,         \* script global `input_data` (an insertion-ordered dict)
    rain_today_option,  \* script global
    selected_wind_dir,  \* script global
    model_input_values, \* script global (a list)
    final_model_input,  \* script global (a 2-D array: a sequence of rows)
    prediction,         \* outcome of model.predict in this execution
    predict_calls,      \* number of model.predict calls in this execution
    shown,              \* elements rendered on the page by this execution
    prev_failed,        \* the previous execution ended in a prediction error
    built               \* history: the (observation, vector) pairs built so far, in order

vars == << pc, runs, loads, w_num, w_rain, w_dir, button, model, load_exc,
           input_data, rain_today_option, selected_wind_dir, model_input_values,
           final_model_input, prediction, predict_calls, shown, prev_failed,
           built >>

\* Cap on the number of script executions of one behaviour.
MaxRuns == 4

-----------------------------------------------------------------------------
\* Python values

PyInt(n) == [ty |-> "int", tenths |-> 10 * n]

PyFloat(t) == [ty |-> "float", tenths |-> t]

Range(s) == { s[i] : i \in 1..Len(s) }

\* An insertion-ordered dict: the keys in insertion order and their values.
EmptyDict == [keys |-> << >>, val |-> << >>]

HasKey(d, k) == k \in Range(d.keys)

\* d[k] = v : a new key is appended, an existing key keeps its place.
DictSet(d, k, v) ==
    [keys |-> IF HasKey(d, k) THEN d.keys ELSE Append(d.keys, k),
     val  |-> [x \in (DOMAIN d.val) \cup {k} |-> IF x = k THEN v ELSE d.val[x]]]

\* d[k] of a key that is present.
DictGet(d, k) == d.val[k]

-----------------------------------------------------------------------------
\* The script's constants

\* features_list as it was before 'RainToday' was added to it.
features_list_without_RainToday ==
    << "MinTemp", "MaxTemp", "Rainfall", "WindGustSpeed", "WindSpeed9am",
       "WindSpeed3pm", "Humidity9am", "Humidity3pm", "Pressure9am",
       "Pressure3pm", "Cloud9am", "Cloud3pm", "Temp9am", "Temp3pm", "Month",
       "WindGustDir_ENE", "WindGustDir_ESE", "WindGustDir_N", "WindGustDir_NE",
       "WindGustDir_NNE", "WindGustDir_NNW", "WindGustDir_NW", "WindGustDir_S",
       "WindGustDir_SE", "WindGustDir_SSE", "WindGustDir_SSW", "WindGustDir_SW",
       "WindGustDir_W", "WindGustDir_WNW", "WindGustDir_WSW" >>

features_list ==
    << "MinTemp", "MaxTemp", "Rainfall", "WindGustSpeed", "WindSpeed9am",
       "WindSpeed3pm", "Humidity9am", "Humidity3pm", "Pressure9am",
       "Pressure3pm", "Cloud9am", "Cloud3pm", "Temp9am", "Temp3pm",
       "RainToday", "Month",
       "WindGustDir_ENE", "WindGustDir_ESE", "WindGustDir_N", "WindGustDir_NE",
       "WindGustDir_NNE", "WindGustDir_NNW", "WindGustDir_NW", "WindGustDir_S",
       "WindGustDir_SE", "WindGustDir_SSE", "WindGustDir_SSW", "WindGustDir_SW",
       "WindGustDir_W", "WindGustDir_WNW", "WindGustDir_WSW" >>

wind_directions ==
    << "ENE", "ESE", "N", "NE", "NNE", "NNW", "NW", "S", "SE", "SSE",
       "SSW", "SW", "W", "WNW", "WSW" >>

\* f'WindGustDir_{direction}'
DirKey(direction) == "WindGustDir_" \o direction

\* The options of the two radios.
RainOptions == << "No", "Yes" >>

DirOptions == << "None" >> \o wind_directions

\* The numeric widgets in the order the script calls them, each with the key
\* it is stored under.
NumericWidgets ==
    << "MinTemp", "MaxTemp", "Rainfall", "Humidity9am", "Humidity3pm",
       "WindGustSpeed", "WindSpeed9am", "WindSpeed3pm", "Pressure9am",
       "Pressure3pm", "Cloud9am", "Cloud3pm", "Temp9am", "Temp3pm", "Month" >>

\* The default value of every numeric widget (value= of number_input, the
\* third positional argument of slider).
WidgetDefault ==
    [ MinTemp |-> PyFloat(134), MaxTemp |-> PyFloat(229), Rainfall |-> PyFloat(6),
      Humidity9am |-> PyInt(71), Humidity3pm |-> PyInt(22),
      WindGustSpeed |-> PyFloat(440), WindSpeed9am |-> PyFloat(200),
      WindSpeed3pm |-> PyFloat(240), Pressure9am |-> PyFloat(10077),
      Pressure3pm |-> PyFloat(10071), Cloud9am |-> PyInt(8), Cloud3pm |-> PyInt(5),
      Temp9am |-> PyFloat(169), Temp3pm |-> PyFloat(218), Month |-> PyInt(12) ]

\* The values a user is taken to enter: the default, one step above it for a
\* number_input, and both ends of the range for a slider.
WidgetValues ==
    [ MinTemp |-> {PyFloat(134), PyFloat(135)},
      MaxTemp |-> {PyFloat(229), PyFloat(230)},
      Rainfall |-> {PyFloat(6), PyFloat(7)},
      Humidity9am |-> {PyInt(0), PyInt(71), PyInt(100)},
      Humidity3pm |-> {PyInt(0), PyInt(22), PyInt(100)},
      WindGustSpeed |-> {PyFloat(440), PyFloat(450)},
      WindSpeed9am |-> {PyFloat(200), PyFloat(210)},
      WindSpeed3pm |-> {PyFloat(240), PyFloat(250)},
      Pressure9am |-> {PyFloat(10077), PyFloat(10078)},
      Pressure3pm |-> {PyFloat(10071), PyFloat(10072)},
      Cloud9am |-> {PyInt(0), PyInt(8), PyInt(9)},
      Cloud3pm |-> {PyInt(0), PyInt(5), PyInt(9)},
      Temp9am |-> {PyFloat(169), PyFloat(170)},
      Temp3pm |-> {PyFloat(218), PyFloat(219)},
      Month |-> {PyInt(1), PyInt(12)} ]

-----------------------------------------------------------------------------
\* The statements of the script, as functions of the values they read

\* The flag with its two values exchanged.
RainTodayFlag_inverted(option) == IF option = "Yes" THEN PyInt(0) ELSE PyInt(1)

\* 1 if rain_today_option == 'Yes' else 0
RainTodayFlag(option) == IF option = "Yes" THEN PyInt(1) ELSE PyInt(0)

\* The keys the form section assigns, in the order of its assignments.
FormKeys ==
    << "MinTemp", "MaxTemp", "Rainfall", "Humidity9am", "Humidity3pm",
       "WindGustSpeed", "WindSpeed9am", "WindSpeed3pm", "Pressure9am",
       "Pressure3pm", "Cloud9am", "Cloud3pm", "Temp9am", "Temp3pm",
       "RainToday", "Month" >>

RECURSIVE AssignForm(_, _, _, _)
AssignForm(d, i, num, option) ==
    IF i > Len(FormKeys) THEN d
    ELSE LET k == FormKeys[i]
             v == IF k = "RainToday" THEN RainTodayFlag(option) ELSE num[k]
         IN  AssignForm(DictSet(d, k, v), i + 1, num, option)

\* input_data = {} followed by the assignments of the form section.
FormInputs(num, option) == AssignForm(EmptyDict, 1, num, option)

RECURSIVE InitFlags(_, _)
InitFlags(d, i) ==
    IF i > Len(wind_directions) THEN d
    ELSE InitFlags(DictSet(d, DirKey(wind_directions[i]), PyInt(0)), i + 1)

\* The loop left out: no flag is initialised.
OneHotInit_skipped(d) == d

\* for direction in wind_directions: input_data[f'WindGustDir_{direction}'] = 0
OneHotInit(d) == InitFlags(d, 1)

\* The selected flag stored under the bare label, without the 'WindGustDir_' prefix.
OneHotSelect_bare_key(d, selected) ==
    IF selected # "None" THEN DictSet(d, selected, PyInt(1)) ELSE d

\* if selected_wind_dir != 'None': input_data[f'WindGustDir_{selected_wind_dir}'] = 1
OneHotSelect(d, selected) ==
    IF selected # "None" THEN DictSet(d, DirKey(selected), PyInt(1)) ELSE d

\* The list comprehension raises KeyError when a feature is no key of the dict.
RaisesKeyError(d) == \E i \in 1..Len(features_list) : ~HasKey(d, features_list[i])

\* list(input_data.values()): the values in the dict's insertion order.
ModelInputValues_insertion_order(d) ==
    [i \in 1..Len(d.keys) |-> DictGet(d, d.keys[i])]

\* [input_data[feature] for feature in features_list]
ModelInputValues(d) == [i \in 1..Len(features_list) |-> DictGet(d, features_list[i])]

\* np.array(list): a list that mixes ints and floats becomes an array of floats.
NpArray(list) ==
    IF \E i \in 1..Len(list) : list[i].ty = "float"
    THEN [i \in 1..Len(list) |-> PyFloat(list[i].tenths)]
    ELSE list

\* .reshape(1, -1): one row holding every element.
Reshape1(arr) == << arr >>

\* The labels the predictor returns, and the exception it may raise instead.
Labels == {"No", "Yes"}

-----------------------------------------------------------------------------
\* One execution of the script

\* The namespace of a new execution: no global of the script is bound yet.
FreshNamespace ==
    /\ model' = "unbound"
    /\ load_exc' = "none"
    /\ input_data' = EmptyDict
    /\ rain_today_option' = "unbound"
    /\ selected_wind_dir' = "unbound"
    /\ model_input_values' = << >>
    /\ final_model_input' = << >>
    /\ prediction' = "none"
    /\ predict_calls' = 0
    /\ shown' = {}

Init ==
    /\ pc = "load"
    /\ runs = 1
    /\ loads = 0
    /\ w_num = WidgetDefault
    /\ w_rain = "No"
    /\ w_dir = "None"
    /\ button = FALSE
    /\ model = "unbound"
    /\ load_exc = "none"
    /\ input_data = EmptyDict
    /\ rain_today_option = "unbound"
    /\ selected_wind_dir = "unbound"
    /\ model_input_values = << >>
    /\ final_model_input = << >>
    /\ prediction = "none"
    /\ predict_calls = 0
    /\ shown = {}
    /\ prev_failed = FALSE
    /\ built = << >>

\* try: model = jl.load('rain_model.pkl'); st.sidebar.success(...)
LoadModel ==
    /\ pc = "load"
    /\ loads' = loads + 1
    /\ \E outcome \in {"ok", "FileNotFoundError", "Exception"} :
          IF outcome = "ok"
          THEN /\ model' = "loaded"
               /\ shown' = shown \cup {"sidebar_success"}
               /\ pc' = "form"
               /\ UNCHANGED load_exc
          ELSE /\ load_exc' = outcome
               /\ pc' = "load_except"
               /\ UNCHANGED << model, shown >>
    /\ UNCHANGED << runs, w_num, w_rain, w_dir, button, input_data,
                    rain_today_option, selected_wind_dir, model_input_values,
                    final_model_input, prediction, predict_calls, prev_failed,
                    built >>

\* The handler without st.stop(): the script goes on to the form.
StopOnLoadError_no_stop ==
    /\ pc = "load_except"
    /\ shown' = shown \cup {"load_error"}
    /\ pc' = "form"
    /\ UNCHANGED << runs, loads, w_num, w_rain, w_dir, button, model, load_exc,
                    input_data, rain_today_option, selected_wind_dir,
                    model_input_values, final_model_input, prediction,
                    predict_calls, prev_failed, built >>

\* except FileNotFoundError / except Exception: st.error(...); st.stop()
StopOnLoadError ==
    /\ pc = "load_except"
    /\ shown' = shown \cup {"load_error"}
    /\ pc' = "stopped"
    /\ UNCHANGED << runs, loads, w_num, w_rain, w_dir, button, model, load_exc,
                    input_data, rain_today_option, selected_wind_dir,
                    model_input_values, final_model_input, prediction,
                    predict_calls, prev_failed, built >>

\* The title and the form: every widget call returns the session's value.
RenderForm ==
    /\ pc = "form"
    /\ rain_today_option' = w_rain
    /\ input_data' = FormInputs(w_num, w_rain)
    /\ selected_wind_dir' = w_dir
    /\ shown' = shown \cup {"form"}
    /\ pc' = "onehot_init"
    /\ UNCHANGED << runs, loads, w_num, w_rain, w_dir, button, model, load_exc,
                    model_input_values, final_model_input, prediction,
                    predict_calls, prev_failed, built >>

\* The loop that sets every direction flag to 0.
OneHotInitStep ==
    /\ pc = "onehot_init"
    /\ input_data' = OneHotInit(input_data)
    /\ pc' = "onehot_select"
    /\ UNCHANGED << runs, loads, w_num, w_rain, w_dir, button, model, load_exc,
                    rain_today_option, selected_wind_dir, model_input_values,
                    final_model_input, prediction, predict_calls, shown,
                    prev_failed, built >>

\* The flag updated in place (input_data[key] += 1): a key that the loop did
\* not create raises KeyError.
OneHotSelectStep_strict ==
    /\ pc = "onehot_select"
    /\ IF selected_wind_dir # "None" /\ ~HasKey(input_data, DirKey(selected_wind_dir))
       THEN /\ pc' = "crashed"
            /\ shown' = shown \cup {"uncaught_exception"}
            /\ UNCHANGED input_data
       ELSE /\ input_data' = OneHotSelect(input_data, selected_wind_dir)
            /\ pc' = "button"
            /\ UNCHANGED shown
    /\ UNCHANGED << runs, loads, w_num, w_rain, w_dir, button, model, load_exc,
                    rain_today_option, selected_wind_dir, model_input_values,
                    final_model_input, prediction, predict_calls, prev_failed,
                    built >>

\* The flag of the selected direction is set to 1.
OneHotSelectStep ==
    /\ pc = "onehot_select"
    /\ input_data' = OneHotSelect(input_data, selected_wind_dir)
    /\ pc' = "button"
    /\ UNCHANGED << runs, loads, w_num, w_rain, w_dir, button, model, load_exc,
                    rain_today_option, selected_wind_dir, model_input_values,
                    final_model_input, prediction, predict_calls, shown,
                    prev_failed, built >>

\* if st.button('Predict Rain Tomorrow'):
ButtonStep ==
    /\ pc = "button"
    /\ shown' = shown \cup {"button"}
    /\ pc' = IF button THEN "build" ELSE "footer"
    /\ UNCHANGED << runs, loads, w_num, w_rain, w_dir, button, model, load_exc,
                    input_data, rain_today_option, selected_wind_dir,
                    model_input_values, final_model_input, prediction,
                    predict_calls, prev_failed, built >>

\* model_input_values = [...]; final_model_input = np.array(...).reshape(1, -1)
\* The two statements stand outside the try: a KeyError ends the execution.
BuildVector ==
    /\ pc = "build"
    /\ IF RaisesKeyError(input_data)
       THEN /\ pc' = "crashed"
            /\ shown' = shown \cup {"uncaught_exception"}
            /\ UNCHANGED << model_input_values, final_model_input, built >>
       ELSE /\ model_input_values' = ModelInputValues(input_data)
            /\ final_model_input' = Reshape1(NpArray(ModelInputValues(input_data)))
            /\ built' = Append(built,
                  [num |-> w_num, rain |-> w_rain, dir |-> w_dir,
                   vec |-> ModelInputValues(input_data)])
            /\ pc' = "predict"
            /\ UNCHANGED shown
    /\ UNCHANGED << runs, loads, w_num, w_rain, w_dir, button, model, load_exc,
                    input_data, rain_today_option, selected_wind_dir, prediction,
                    predict_calls, prev_failed >>

\* try: prediction = model.predict(final_model_input); st.success(...)
Predict ==
    /\ pc = "predict"
    /\ predict_calls' = predict_calls + 1
    /\ \E outcome \in Labels \cup {"raise"} :
          /\ prediction' = outcome
          /\ IF outcome = "raise"
             THEN /\ pc' = "predict_except"
                  /\ UNCHANGED shown
             ELSE /\ pc' = "result"
                  /\ shown' = shown \cup {"prediction_complete"}
    /\ UNCHANGED << runs, loads, w_num, w_rain, w_dir, button, model, load_exc,
                    input_data, rain_today_option, selected_wind_dir,
                    model_input_values, final_model_input, prev_failed, built >>

\* if prediction[0] == 'No': ... else: ...
ShowResult ==
    /\ pc = "result"
    /\ shown' = shown \cup
          (IF prediction = "No" THEN {"balloons", "metric_no"}
                                ELSE {"snow", "metric_yes"})
    /\ pc' = "footer"
    /\ UNCHANGED << runs, loads, w_num, w_rain, w_dir, button, model, load_exc,
                    input_data, rain_today_option, selected_wind_dir,
                    model_input_values, final_model_input, prediction,
                    predict_calls, prev_failed, built >>

\* The handler calling the predictor again after reporting the error.
ShowPredictionError_retry ==
    /\ pc = "predict_except"
    /\ shown' = shown \cup {"prediction_error", "warning"}
    /\ pc' = IF predict_calls < 2 THEN "predict" ELSE "footer"
    /\ UNCHANGED << runs, loads, w_num, w_rain, w_dir, button, model, load_exc,
                    input_data, rain_today_option, selected_wind_dir,
                    model_input_values, final_model_input, prediction,
                    predict_calls, prev_failed, built >>

\* except Exception as e: st.error(...); st.warning(...)
ShowPredictionError ==
    /\ pc = "predict_except"
    /\ shown' = shown \cup {"prediction_error", "warning"}
    /\ pc' = "footer"
    /\ UNCHANGED << runs, loads, w_num, w_rain, w_dir, button, model, load_exc,
                    input_data, rain_today_option, selected_wind_dir,
                    model_input_values, final_model_input, prediction,
                    predict_calls, prev_failed, built >>

\* The separator and the caption; the execution ends.
Footer ==
    /\ pc = "footer"
    /\ shown' = shown \cup {"caption"}
    /\ pc' = "done"
    /\ UNCHANGED << runs, loads, w_num, w_rain, w_dir, button, model, load_exc,
                    input_data, rain_today_option, selected_wind_dir,
                    model_input_values, final_model_input, prediction,
                    predict_calls, prev_failed, built >>

-----------------------------------------------------------------------------
\* User interactions: each one starts a new execution of the script

\* The user changes the value of one numeric widget.
ChangeNumber ==
    /\ pc = "done"
    /\ runs < MaxRuns
    /\ \E k \in Range(NumericWidgets) : \E v \in WidgetValues[k] \ {w_num[k]} :
          w_num' = [w_num EXCEPT ![k] = v]
    /\ button' = FALSE
    /\ runs' = runs + 1
    /\ prev_failed' = (prediction = "raise")
    /\ pc' = "load"
    /\ FreshNamespace
    /\ UNCHANGED << loads, w_rain, w_dir, built >>

\* The user selects the other option of the 'Did it rain today?' radio.
ChangeRainToday ==
    /\ pc = "done"
    /\ runs < MaxRuns
    /\ \E o \in Range(RainOptions) \ {w_rain} : w_rain' = o
    /\ button' = FALSE
    /\ runs' = runs + 1
    /\ prev_failed' = (prediction = "raise")
    /\ pc' = "load"
    /\ FreshNamespace
    /\ UNCHANGED << loads, w_num, w_dir, built >>

\* The user selects another option of the wind gust direction radio.
ChangeDirection ==
    /\ pc = "done"
    /\ runs < MaxRuns
    /\ \E o \in Range(DirOptions) \ {w_dir} : w_dir' = o
    /\ button' = FALSE
    /\ runs' = runs + 1
    /\ prev_failed' = (prediction = "raise")
    /\ pc' = "load"
    /\ FreshNamespace
    /\ UNCHANGED << loads, w_num, w_rain, built >>

\* The user clicks 'Predict Rain Tomorrow'.
PressButton ==
    /\ pc = "done"
    /\ runs < MaxRuns
    /\ button' = TRUE
    /\ runs' = runs + 1
    /\ prev_failed' = (prediction = "raise")
    /\ pc' = "load"
    /\ FreshNamespace
    /\ UNCHANGED << loads, w_num, w_rain, w_dir, built >>

\* The user reloads the page: a new session, every widget at its default.
ReloadPage ==
    /\ pc \in {"done", "stopped", "crashed"}
    /\ runs < MaxRuns
    /\ w_num' = WidgetDefault
    /\ w_rain' = RainOptions[1]
    /\ w_dir' = DirOptions[1]
    /\ button' = FALSE
    /\ runs' = runs + 1
    /\ prev_failed' = FALSE
    /\ pc' = "load"
    /\ FreshNamespace
    /\ UNCHANGED << loads, built >>

Next ==
    \/ LoadModel
    \/ StopOnLoadError
    \/ RenderForm
    \/ OneHotInitStep
    \/ OneHotSelectStep
    \/ ButtonStep
    \/ BuildVector
    \/ Predict
    \/ ShowResult
    \/ ShowPredictionError
    \/ Footer
    \/ ChangeNumber
    \/ ChangeRainToday
    \/ ChangeDirection
    \/ PressButton
    \/ ReloadPage

Spec == Init /\ [][Next]_vars

-----------------------------------------------------------------------------
\* The encoding on its own: the statements from the one-hot loop to the list
\* comprehension, applied to an observation whose direction is any string,
\* the radio's options and strings the radio does not offer alike.

AnyDirection == Range(DirOptions) \cup {"unknown-garbage", "", "w", "NNN"}

Observations ==
    {WidgetDefault} \cup
    UNION { { [WidgetDefault EXCEPT ![k] = v] : v \in WidgetValues[k] } :
            k \in Range(NumericWidgets) }

InitEnc ==
    /\ pc = "onehot_init"
    /\ runs = 1
    /\ loads = 1
    /\ w_num \in Observations
    /\ w_rain \in Range(RainOptions)
    /\ w_dir \in AnyDirection
    /\ button = TRUE
    /\ model = "loaded"
    /\ load_exc = "none"
    /\ input_data = FormInputs(w_num, w_rain)
    /\ rain_today_option = w_rain
    /\ selected_wind_dir = w_dir
    /\ model_input_values = << >>
    /\ final_model_input = << >>
    /\ prediction = "none"
    /\ predict_calls = 0
    /\ shown = {"sidebar_success", "form"}
    /\ prev_failed = FALSE
    /\ built = << >>

NextEnc ==
    \/ OneHotInitStep
    \/ OneHotSelectStep
    \/ ButtonStep
    \/ BuildVector

SpecEnc == InitEnc /\ [][NextEnc]_vars

-----------------------------------------------------------------------------
\* Properties

\* The list comprehension of this execution has been evaluated.
VectorBuilt == model_input_values # << >>

\* The execution is past the two statements that build the vector.
PastBuild == button /\ pc \in {"predict", "predict_except", "result", "footer", "done"}

\* C1: whenever the predict button is pressed, whatever the widgets hold,
\* the list built for the model has exactly 31 elements, and the array made
\* of it is one row of 31 elements.
C1_VectorLength ==
    /\ PastBuild => VectorBuilt
    /\ VectorBuilt =>
          /\ Len(model_input_values) = 31
          /\ Len(final_model_input) = 1
          /\ Len(final_model_input[1]) = 31

C1_Witness ==
    /\ VectorBuilt
    /\ w_dir = "W"
    /\ w_num # WidgetDefault
    /\ Len(model_input_values) = 31

\* C2: positions 0..15 of the vector hold the values of MinTemp, MaxTemp,
\* Rainfall, WindGustSpeed, WindSpeed9am, WindSpeed3pm, Humidity9am,
\* Humidity3pm, Pressure9am, Pressure3pm, Cloud9am, Cloud3pm, Temp9am,
\* Temp3pm, RainToday, Month in that order, numerically unchanged in the
\* array too, and positions 16..30 hold the direction flags in the order ENE,
\* ESE, N, NE, NNE, NNW, NW, S, SE, SSE, SSW, SW, W, WNW, WSW, although the
\* dictionary received the fields in another order.
C2_FieldOrder ==
    LET fields == << "MinTemp", "MaxTemp", "Rainfall", "WindGustSpeed",
                     "WindSpeed9am", "WindSpeed3pm", "Humidity9am",
                     "Humidity3pm", "Pressure9am", "Pressure3pm", "Cloud9am",
                     "Cloud3pm", "Temp9am", "Temp3pm", "RainToday", "Month" >>
        dirs   == << "ENE", "ESE", "N", "NE", "NNE", "NNW", "NW", "S", "SE",
                     "SSE", "SSW", "SW", "W", "WNW", "WSW" >>
        entered(k) == IF k = "RainToday" THEN input_data.val["RainToday"]
                                         ELSE w_num[k]
    IN  VectorBuilt =>
          /\ Len(model_input_values) = 31
          /\ \A i \in 1..16 :
                /\ model_input_values[i] = entered(fields[i])
                /\ final_model_input[1][i].tenths = entered(fields[i]).tenths
          /\ \A j \in 1..15 :
                /\ model_input_values[16 + j] = input_data.val["WindGustDir_" \o dirs[j]]
                /\ model_input_values[16 + j].tenths = 10 <=> w_dir = dirs[j]

C2_Witness ==
    /\ VectorBuilt
    /\ SubSeq(input_data.keys, 1, 16) # SubSeq(features_list, 1, 16)
    /\ model_input_values[4] = w_num["WindGustSpeed"]
    /\ w_num["WindGustSpeed"] # WidgetDefault["WindGustSpeed"]

\* C3: element 14 (0-indexed) of the vector is the RainToday flag: the int 1
\* when the selection is "Yes", the int 0 when it is "No", which is the
\* default selection; it is never another value.
C3_RainTodayFlag ==
    /\ VectorBuilt =>
          /\ Len(model_input_values) = 31
          /\ w_rain = "Yes" => model_input_values[15] = [ty |-> "int", tenths |-> 10]
          /\ w_rain = "No" => model_input_values[15] = [ty |-> "int", tenths |-> 0]
          /\ w_rain \in {"Yes", "No"}
    /\ runs = 1 => w_rain = "No"

C3_Witness ==
    /\ VectorBuilt
    /\ w_rain = "Yes"
    /\ model_input_values[15] = [ty |-> "int", tenths |-> 10]

\* C4: each of the 15 trailing elements is the int 0 or the int 1 and at most
\* one is 1; when the selected direction is one of the 15 labels exactly one
\* is 1, the one at the label's position (for "W", position 28).
C4_OneHot ==
    LET dirs == << "ENE", "ESE", "N", "NE", "NNE", "NNW", "NW", "S", "SE",
                   "SSE", "SSW", "SW", "W", "WNW", "WSW" >>
        one  == [ty |-> "int", tenths |-> 10]
        zero == [ty |-> "int", tenths |-> 0]
        ones == { j \in 17..31 : model_input_values[j] = one }
    IN  VectorBuilt =>
          /\ Len(model_input_values) = 31
          /\ \A j \in 17..31 : model_input_values[j] \in {zero, one}
          /\ Cardinality(ones) <= 1
          /\ \A j \in 1..15 : w_dir = dirs[j] => ones = {16 + j}
          /\ w_dir = "W" => ones = {29}

C4_Witness ==
    /\ VectorBuilt
    /\ w_dir = "W"
    /\ model_input_values[29] = [ty |-> "int", tenths |-> 10]
    /\ \A j \in (17..31) \ {29} : model_input_values[j] = [ty |-> "int", tenths |-> 0]

\* C5: a direction that is none of the 15 labels, 'None' or any other
\* string, raises nothing: the statements run through, the vector has 31
\* elements and its 15 trailing elements are all the int 0.
C5_UnknownDirection ==
    LET labels == {"ENE", "ESE", "N", "NE", "NNE", "NNW", "NW", "S", "SE",
                   "SSE", "SSW", "SW", "W", "WNW", "WSW"}
    IN  selected_wind_dir \notin labels =>
          /\ pc # "crashed"
          /\ "uncaught_exception" \notin shown
          /\ pc = "predict" => VectorBuilt
          /\ VectorBuilt =>
                /\ Len(model_input_values) = 31
                /\ \A j \in 17..31 :
                      model_input_values[j] = [ty |-> "int", tenths |-> 0]

C5_Witness ==
    /\ pc = "predict"
    /\ selected_wind_dir = "unknown-garbage"
    /\ VectorBuilt
    /\ \A j \in 17..31 : model_input_values[j] = [ty |-> "int", tenths |-> 0]

\* C7: when model.predict raises, the error is reported, no Yes/No result
\* and no 'Prediction Complete!' is displayed, the predictor is called at
\* most once per execution, the form and its button are rendered all the
\* same, and a press of the button after a failed attempt calls the
\* predictor again.
C7_PredictionFailure ==
    /\ predict_calls <= 1
    /\ prediction = "raise" =>
          /\ {"metric_no", "metric_yes", "prediction_complete"} \cap shown = {}
          /\ pc \in {"predict_except", "footer", "done"}
          /\ pc \in {"footer", "done"} => {"prediction_error", "warning"} \subseteq shown
          /\ {"form", "button"} \subseteq shown
    /\ (prev_failed /\ button /\ pc \in {"predict_except", "result", "footer", "done"})
          => predict_calls = 1

C7_Witness ==
    /\ prev_failed
    /\ button
    /\ predict_calls = 1
    /\ pc = "done"

\* C8: in an execution in which jl.load raised, an error is shown, the script
\* stops, the form is not rendered and the predictor is not called.
C8_LoadFailureFatal ==
    load_exc # "none" =>
        /\ pc \in {"load_except", "stopped"}
        /\ pc = "stopped" => "load_error" \in shown
        /\ {"form", "button"} \cap shown = {}
        /\ predict_calls = 0
        /\ model = "unbound"

C8_Witness ==
    /\ pc = "stopped"
    /\ load_exc = "FileNotFoundError"
    /\ "load_error" \in shown

\* C9: the vector is a function of the observation alone: two builds from
\* the same observation, in whatever interactions, give the same vector; the
\* vector of this execution is the one recorded for the widgets' present
\* values; and after the loop every direction flag of the dictionary is 0,
\* whatever was selected before.
C9_Idempotent ==
    /\ \A i \in 1..Len(built) : \A j \in 1..Len(built) :
          (built[i].num = built[j].num /\ built[i].rain = built[j].rain
             /\ built[i].dir = built[j].dir) => built[i].vec = built[j].vec
    /\ VectorBuilt =>
          /\ built # << >>
          /\ built[Len(built)] = [num |-> w_num, rain |-> w_rain, dir |-> w_dir,
                                  vec |-> model_input_values]
    /\ pc = "onehot_select" =>
          \A i \in 1..Len(wind_directions) :
              /\ HasKey(input_data, "WindGustDir_" \o wind_directions[i])
              /\ input_data.val["WindGustDir_" \o wind_directions[i]]
                    = [ty |-> "int", tenths |-> 0]

\* The same observation built in two executions.
C9_Witness ==
    /\ VectorBuilt
    /\ Len(built) = 2
    /\ built[1].num = built[2].num
    /\ built[1].rain = built[2].rain
    /\ built[1].dir = built[2].dir
    /\ built[1].vec = built[2].vec

\* C10: the artifact is loaded exactly once: after the first load the number
\* of jl.load calls stays 1, whatever the user does.
C10_LoadedOnce == pc # "load" => loads = 1

====
